---- MODULE Spec2Model ----
(***************************************************************************)
(* Sync & classification engine of posvendas-app.                          *)
(*                                                                         *)
(* Strings the code inspects character by character (order ids, customer   *)
(* ids, e-mails) are sequences of one-character strings, so that strip,    *)
(* replace and lower are computed the way Python computes them.            *)
(* Timestamps are whole day numbers (>= 0); NaT stands for a missing or     *)
(* unparseable date. Amounts are whole reais, for which the textual        *)
(* conversion of ler_aba (remove ".", "," -> ".") returns the number       *)
(* unchanged. Labels are written without accents.                          *)
(***************************************************************************)
EXTENDS Integers, Sequences, FiniteSets, TLC

VARIABLES
    shopify,      \* indices of Catalogo the order source currently returns
    cancelados,   \* orders of shopify that the source marked cancelled later on
    hoje,         \* current day (pd.Timestamp.now in agregar_por_cliente)
    pedidos,      \* worksheet "Pedidos Shopify": the valid ledger, a sequence of rows
    clientes,     \* worksheet "Clientes Shopify": the customer table, a sequence of rows
    resultado,    \* dict returned by the last sincronizar_incremental call
    ultima,       \* last operation: "init", "env" (source / clock changed) or "sync"
    fetched,      \* history: the orders completed fetches delivered (id, markers, amount)
    falhou,       \* history: the fault the last run met ("nenhuma" when it met none)
    entrada,      \* input of the pure-function specifications
    saida         \* output of the pure-function specifications

vars == <<shopify, cancelados, hoje, pedidos, clientes, resultado, ultima, fetched,
          falhou, entrada, saida>>

-----------------------------------------------------------------------------
(* Bounds of the model *)

NumPedidos == 4      \* orders of Catalogo the source may come to hold
MaxLinhas == 3       \* rows the ledger may reach (caps the re-append loop)
MaxAvancos == 1      \* times the clock advances by PassoDias
MaxQtd == 5          \* largest "Qtd Pedidos" of a classified customer
MaxClientes == 6     \* rows of the customer table given to calcular_ciclo_medio

(* Missing value: NaT of a date column, None / NaN of "Dias sem comprar" *)
NaT == -1

Hoje0 == 100
PassoDias == 50

-----------------------------------------------------------------------------
(* Python string operations on sequences of characters *)

RECURSIVE lstrip(_)
lstrip(s) ==
    IF s # <<>> /\ Head(s) = " " THEN lstrip(Tail(s)) ELSE s

RECURSIVE rstrip(_)
rstrip(s) ==
    IF s # <<>> /\ s[Len(s)] = " " THEN rstrip(SubSeq(s, 1, Len(s) - 1)) ELSE s

strip(s) == rstrip(lstrip(s))

startswith(s, p) == Len(s) >= Len(p) /\ SubSeq(s, 1, Len(p)) = p

RECURSIVE replace(_, _, _)
replace(s, old, new) ==
    IF s = <<>> THEN <<>>
    ELSE IF startswith(s, old)
         THEN new \o replace(SubSeq(s, Len(old) + 1, Len(s)), old, new)
         ELSE <<Head(s)>> \o replace(Tail(s), old, new)

lower(s) ==
    [i \in 1..Len(s) |->
        CASE s[i] = "A" -> "a"
          [] s[i] = "B" -> "b"
          [] OTHER -> s[i]]

(* Characters in code-point order, for the lexicographic order of groupby *)
Alfabeto ==
    <<" ", ",", ".", "0", "1", "2", "3", "4", "5", "6", "7", "8", "9",
      "A", "B", "E", "I", "L", "M", "N", "_", "a", "b", "e", "n", "o">>

CodePoints ==
    [c \in {Alfabeto[i] : i \in 1..Len(Alfabeto)} |->
        CHOOSE i \in 1..Len(Alfabeto) : Alfabeto[i] = c]

ord(c) == CodePoints[c]

RECURSIVE str_leq(_, _)
str_leq(a, b) ==
    IF a = <<>> THEN TRUE
    ELSE IF b = <<>> THEN FALSE
    ELSE IF Head(a) = Head(b) THEN str_leq(Tail(a), Tail(b))
    ELSE ord(Head(a)) < ord(Head(b))

RECURSIVE sorted_strs(_)
sorted_strs(S) ==
    IF S = {} THEN <<>>
    ELSE LET m == CHOOSE x \in S : \A y \in S : str_leq(x, y)
         IN  <<m>> \o sorted_strs(S \ {m})

RECURSIVE sorted_ints(_)
sorted_ints(S) ==
    IF S = {} THEN <<>>
    ELSE LET m == CHOOSE x \in S : \A y \in S : x <= y
         IN  <<m>> \o sorted_ints(S \ {m})

reversed(s) == [i \in 1..Len(s) |-> s[Len(s) + 1 - i]]

(* pd.DataFrame(rows): the rows as a sequence in memory *)
DataFrame(rows) == <<>> \o rows

-----------------------------------------------------------------------------
(* The order source.  Catalogo lists the orders the source may hold, as the *)
(* JSON objects of orders.json after str() / float(): id, created_at,       *)
(* customer.id ("" when the order has no customer), name, e-mail,           *)
(* total_price, cancelled_at (present or not) and total_refunded.           *)

Pedido(id, dia, cid, nome, email, total, cancelled, refunded) ==
    [id |-> id, created_at |-> dia, customer_id |-> cid, nome |-> nome,
     email |-> email, total_price |-> total, cancelled_at |-> cancelled,
     total_refunded |-> refunded]

Catalogo ==
    << Pedido(<<"7">>, 0, <<"5">>, "Ana", <<"a">>, 100, FALSE, 0),
       Pedido(<<"7", ".", "0">>, 0, <<"5">>, "Ana", <<"a">>, 100, FALSE, 0),
       Pedido(<<"9">>, 120, <<>>, "Bia", <<"A">>, 2500, FALSE, 0),
       Pedido(<<"4">>, 100, <<"6">>, "Caio", <<"b">>, 100, FALSE, 100),
       Pedido(<<"8">>, 60, <<"5">>, "Ana B", <<"a">>, 600, FALSE, 100),
       Pedido(<<"3">>, 60, <<"6">>, "Caio", <<"b">>, 100, TRUE, 0),
       Pedido(<<" ", "7", " ">>, 0, <<"5">>, "Ana", <<"a">>, 100, FALSE, 0),
       Pedido(<<"2">>, NaT, <<>>, "Bia", <<"B">>, 5000, FALSE, 0) >>

Indices == 1..NumPedidos

(* Orders the source may mark cancelled after it first returned them *)
Cancelaveis == {1}


(* buscar_pedidos_pagos_direto: one DataFrame row per order returned, in   *)
(* the order the source lists them.  The source may deliver one order on    *)
(* two pages (dup # 0).                                                     *)
linha_shopify(i) ==
    LET o == Catalogo[i]
    IN  [id |-> o.id, data |-> o.created_at, cid |-> o.customer_id,
         cliente |-> o.nome, email |-> o.email, valor |-> o.total_price,
         cancelled_at |-> (o.cancelled_at \/ i \in cancelados),
         total_refunded |-> o.total_refunded]

buscar_pedidos_pagos_direto(dup) ==
    LET idx  == sorted_ints(shopify)
        rows == DataFrame([k \in 1..Len(idx) |-> linha_shopify(idx[k])])
    IN  IF dup = 0 THEN rows ELSE rows \o <<linha_shopify(dup)>>

-----------------------------------------------------------------------------
(* utils/sheets.py *)

Digitos == <<"0", "1", "2", "3", "4", "5", "6", "7", "8", "9">>

RECURSIVE int_str(_)
int_str(n) ==
    IF n < 10 THEN <<Digitos[n + 1]>>
    ELSE int_str(n \div 10) \o <<Digitos[(n % 10) + 1]>>

isdigit(c) == \E d \in 1..10 : Digitos[d] = c

RECURSIVE to_numeric(_, _)
to_numeric(s, acc) ==
    IF s = <<>> THEN acc
    ELSE to_numeric(Tail(s),
                    10 * acc + (CHOOSE d \in 0..9 : Digitos[d + 1] = Head(s)))

(* _converter_valor_br_para_float on the text of a whole number: "R$" and   *)
(* blanks are absent, "." is removed, "," becomes ".", and a text that is   *)
(* no number is coerced to NaN and filled with 0.                           *)
converter_valor_br_para_float(v) ==
    LET txt == strip(replace(replace(replace(int_str(v), <<" ">>, <<>>),
                                     <<".">>, <<>>), <<",">>, <<".">>))
    IN  IF txt # <<>> /\ \A i \in 1..Len(txt) : isdigit(txt[i])
        THEN to_numeric(txt, 0)
        ELSE 0

(* ler_aba: every text cell is stripped, "Valor Total" is converted *)
ler_aba(aba) ==
    DataFrame([i \in 1..Len(aba) |->
        [aba[i] EXCEPT !.id = strip(@), !.cid = strip(@), !.email = strip(@),
                       !.valor = converter_valor_br_para_float(@)]])

normalizar_id(valor) ==
    IF valor = <<>> THEN <<>>
    ELSE strip(replace(replace(valor, <<".", "0">>, <<>>), <<",">>, <<>>))

ler_ids_existentes(aba) ==
    LET df == ler_aba(aba)
    IN  IF df = <<>> THEN {} ELSE {normalizar_id(df[i].id) : i \in 1..Len(df)}

(* append_aba: the rows go to the end of the worksheet, columns as given *)
append_aba_no_topo(aba, df) == df \o aba
append_aba(aba, df) == aba \o df

(* escrever_aba: the worksheet is cleared and the DataFrame written *)
escrever_aba_acrescenta(aba, df) == aba \o df
escrever_aba(aba, df) == df

-----------------------------------------------------------------------------
(* utils/classificacao.py *)

(* pd.to_datetime(errors="coerce"): a day number, or NaT *)
to_datetime(c) == IF c >= 0 THEN c ELSE NaT

(* "cliente_key": the stripped Customer ID, or "EMAIL_" + e-mail *)
cliente_key(r) ==
    LET k == strip(r.cid)
    IN  IF k \in {<<>>, <<"n", "a", "n">>, <<"N", "o", "n", "e">>}
        THEN <<"E", "M", "A", "I", "L", "_">> \o strip(lower(r.email))
        ELSE k

RECURSIVE soma_valor(_)
soma_valor(rows) ==
    IF rows = <<>> THEN 0 ELSE Head(rows).valor + soma_valor(Tail(rows))

min_data(rows) ==
    LET ds == {rows[i].data : i \in 1..Len(rows)} \ {NaT}
    IN  IF ds = {} THEN NaT ELSE CHOOSE d \in ds : \A e \in ds : d <= e

max_data(rows) ==
    LET ds == {rows[i].data : i \in 1..Len(rows)} \ {NaT}
    IN  IF ds = {} THEN NaT ELSE CHOOSE d \in ds : \A e \in ds : d >= e

grupo(df, k) ==
    LET mesma(r) == cliente_key(r) = k
    IN  SelectSeq(df, mesma)

(* agregar_grupo with "Valor Total" aggregated by "last" instead of "sum" *)
agregar_grupo_valor_last(df, k) ==
    LET g == grupo(df, k)
    IN  [cliente_key |-> k,
         customer_id |-> g[1].cid,
         cliente |-> g[Len(g)].cliente,
         email |-> g[Len(g)].email,
         qtd |-> Len(g),
         valor |-> g[Len(g)].valor,
         primeiro |-> min_data(g),
         ultimo |-> max_data(g)]

(* .agg(...) of one group: first, last, last, count, sum, min, max *)
agregar_grupo(df, k) ==
    LET g == grupo(df, k)
    IN  [cliente_key |-> k,
         customer_id |-> g[1].cid,
         cliente |-> g[Len(g)].cliente,
         email |-> g[Len(g)].email,
         qtd |-> Len(g),
         valor |-> soma_valor(g),
         primeiro |-> min_data(g),
         ultimo |-> max_data(g)]

(* groupby("cliente_key", as_index=False): one row per key, keys sorted *)
groupby_agg(df) ==
    LET keys == sorted_strs({cliente_key(df[i]) : i \in 1..Len(df)})
    IN  DataFrame([j \in 1..Len(keys) |-> agregar_grupo(df, keys[j])])

(* "Dias sem comprar": (hoje - Ultimo Pedido).dt.days, None for NaT, clip(lower=0) *)
dias_sem_comprar(agora, ultimo) ==
    IF to_datetime(ultimo) = NaT THEN NaT
    ELSE IF agora - ultimo < 0 THEN 0 ELSE agora - ultimo

(* dias < n, false for a missing dias *)
menor(dias, n) == dias # NaT /\ dias < n

(* calcular_classificacao with the parentheses of the first test left out: *)
(* qtd >= 5 or valor >= 5000 and dias < 60                                  *)
calcular_classificacao_sem_parenteses(qtd, valor, dias) ==
    IF qtd >= 5 \/ (valor >= 5000 /\ menor(dias, 60)) THEN "Campeao"
    ELSE IF (qtd >= 3 \/ valor >= 2000) /\ menor(dias, 90) THEN "Leal"
    ELSE IF (qtd >= 2 \/ valor >= 500) /\ menor(dias, 120) THEN "Promissor"
    ELSE "Iniciante"

(* calcular_classificacao with <= in place of < in the recency tests *)
calcular_classificacao_menor_igual(qtd, valor, dias) ==
    IF (qtd >= 5 \/ valor >= 5000) /\ menor(dias, 61) THEN "Campeao"
    ELSE IF (qtd >= 3 \/ valor >= 2000) /\ menor(dias, 91) THEN "Leal"
    ELSE IF (qtd >= 2 \/ valor >= 500) /\ menor(dias, 121) THEN "Promissor"
    ELSE "Iniciante"

calcular_classificacao(qtd, valor, dias) ==
    IF (qtd >= 5 \/ valor >= 5000) /\ menor(dias, 60) THEN "Campeao"
    ELSE IF (qtd >= 3 \/ valor >= 2000) /\ menor(dias, 90) THEN "Leal"
    ELSE IF (qtd >= 2 \/ valor >= 500) /\ menor(dias, 120) THEN "Promissor"
    ELSE IF qtd = 1 /\ menor(dias, 90) THEN "Iniciante"
    ELSE "Iniciante"

(* sort_values(["Ultimo Pedido"], ascending=[False]): NaT last, ties in place *)
RECURSIVE concat_por_data(_, _)
concat_por_data(df, ds) ==
    IF ds = <<>> THEN <<>>
    ELSE LET nesta(r) == r.ultimo = Head(ds)
         IN  SelectSeq(df, nesta) \o concat_por_data(df, Tail(ds))

sort_values(df) ==
    LET ds == {df[i].ultimo : i \in 1..Len(df)} \ {NaT}
    IN  concat_por_data(df, reversed(sorted_ints(ds)) \o <<NaT>>)

(* Steps 1 to 5 of agregar_por_cliente: the table before "cliente_key" is *)
(* left out of the columns                                                  *)
agregar_com_chave(df_pedidos, agora) ==
    IF df_pedidos = <<>> THEN <<>>
    ELSE LET ag == groupby_agg(df_pedidos)
             linha(a) ==
                 LET dias == dias_sem_comprar(agora, a.ultimo)
                 IN  [cliente_key |-> a.cliente_key,
                      customer_id |-> a.customer_id, cliente |-> a.cliente,
                      email |-> a.email, qtd |-> a.qtd, valor |-> a.valor,
                      primeiro |-> a.primeiro, ultimo |-> to_datetime(a.ultimo),
                      dias |-> dias,
                      nivel |-> calcular_classificacao(a.qtd, a.valor, dias)]
         IN  sort_values(DataFrame([j \in 1..Len(ag) |-> linha(ag[j])]))

(* Steps 6 and 7: the columns of the result, index reset *)
agregar_por_cliente(df_pedidos, agora) ==
    LET t == agregar_com_chave(df_pedidos, agora)
    IN  [j \in 1..Len(t) |->
            [customer_id |-> t[j].customer_id, cliente |-> t[j].cliente,
             email |-> t[j].email, qtd |-> t[j].qtd, valor |-> t[j].valor,
             primeiro |-> t[j].primeiro, ultimo |-> t[j].ultimo,
             dias |-> t[j].dias, nivel |-> t[j].nivel]]

(* _classificar_estado with > in place of >= *)
classificar_estado_estrito(dias, threshold_risco, threshold_dormente) ==
    IF dias = NaT THEN "Ativo"
    ELSE IF dias > threshold_dormente THEN "Dormente"
    ELSE IF dias > threshold_risco THEN "Em risco"
    ELSE "Ativo"

(* _classificar_estado with the first comparison turned round *)
classificar_estado_invertido(dias, threshold_risco, threshold_dormente) ==
    IF dias = NaT THEN "Ativo"
    ELSE IF dias <= threshold_dormente THEN "Dormente"
    ELSE IF dias >= threshold_risco THEN "Em risco"
    ELSE "Ativo"

classificar_estado(dias, threshold_risco, threshold_dormente) ==
    IF dias = NaT THEN "Ativo"
    ELSE IF dias >= threshold_dormente THEN "Dormente"
    ELSE IF dias >= threshold_risco THEN "Em risco"
    ELSE "Ativo"

calcular_estado(df_clientes, threshold_risco, threshold_dormente) ==
    [j \in 1..Len(df_clientes) |->
        [customer_id |-> df_clientes[j].customer_id,
         cliente |-> df_clientes[j].cliente,
         email |-> df_clientes[j].email,
         qtd |-> df_clientes[j].qtd,
         valor |-> df_clientes[j].valor,
         primeiro |-> df_clientes[j].primeiro,
         ultimo |-> df_clientes[j].ultimo,
         dias |-> df_clientes[j].dias,
         estado |-> classificar_estado(df_clientes[j].dias, threshold_risco,
                                        threshold_dormente),
         nivel |-> df_clientes[j].nivel]]

(* calcular_ciclo_medio.  A cycle is the exact fraction <<Dias_Total,       *)
(* Qtd Pedidos - 1>>; "ciclo_mediana" and "ciclo_media" are in tenths of a  *)
(* day, NaT for None.                                                       *)
retorno_padrao(total_recorrentes) ==
    [ciclo_mediana |-> NaT, ciclo_media |-> NaT,
     threshold_ativo |-> 45, threshold_risco |-> 90, threshold_dormente |-> 90,
     total_recorrentes |-> total_recorrentes]

recorrente(r) == r.qtd >= 2

(* "Dias_Total": NaN when a date is NaT *)
dias_total(r) ==
    IF to_datetime(r.ultimo) = NaT \/ to_datetime(r.primeiro) = NaT THEN NaT
    ELSE r.ultimo - r.primeiro

(* Ciclo_Medio > 0, false for NaN *)
ciclo_positivo(r) == dias_total(r) # NaT /\ dias_total(r) > 0

ciclo_medio(r) == <<dias_total(r), r.qtd - 1>>

frac_leq(a, b) == a[1] * b[2] <= b[1] * a[2]

frac_soma(a, b) == <<a[1] * b[2] + b[1] * a[2], a[2] * b[2]>>

RECURSIVE inserir(_, _)
inserir(x, s) ==
    IF s = <<>> THEN <<x>>
    ELSE IF frac_leq(x, Head(s)) THEN <<x>> \o s
    ELSE <<Head(s)>> \o inserir(x, Tail(s))

RECURSIVE sorted_fracs(_)
sorted_fracs(s) ==
    IF s = <<>> THEN <<>> ELSE inserir(Head(s), sorted_fracs(Tail(s)))

(* Series.median(): the middle value, or the mean of the two middle values *)
median(s) ==
    LET o == sorted_fracs(s)
        n == Len(o)
    IN  IF n % 2 = 1 THEN o[(n + 1) \div 2]
        ELSE LET m == frac_soma(o[n \div 2], o[(n \div 2) + 1])
             IN  <<m[1], 2 * m[2]>>

RECURSIVE soma_fracs(_)
soma_fracs(s) ==
    IF s = <<>> THEN <<0, 1>> ELSE frac_soma(Head(s), soma_fracs(Tail(s)))

(* Series.mean() *)
mean(s) == LET t == soma_fracs(s) IN <<t[1], t[2] * Len(s)>>

(* int(x * p / q) of a fraction x >= 0 *)
int_vezes(x, p, q) == (x[1] * p) \div (x[2] * q)

(* round(x, 1) of a fraction x >= 0, in tenths: halves go to the even digit *)
round1(x) ==
    LET q == (10 * x[1]) \div x[2]
        r == (10 * x[1]) % x[2]
    IN  IF 2 * r < x[2] THEN q
        ELSE IF 2 * r > x[2] THEN q + 1
        ELSE IF q % 2 = 0 THEN q ELSE q + 1

calcular_ciclo_medio(df_clientes) ==
    IF df_clientes = <<>> THEN retorno_padrao(0)
    ELSE LET clientes_recorrentes == SelectSeq(df_clientes, recorrente)
         IN  IF Len(clientes_recorrentes) < 5
             THEN retorno_padrao(Len(clientes_recorrentes))
             ELSE LET validos == SelectSeq(clientes_recorrentes, ciclo_positivo)
                      ciclos == [i \in 1..Len(validos) |-> ciclo_medio(validos[i])]
                  IN  IF validos = <<>> THEN retorno_padrao(0)
                      ELSE [ciclo_mediana |-> round1(median(ciclos)),
                            ciclo_media |-> round1(mean(ciclos)),
                            threshold_ativo |-> int_vezes(median(ciclos), 3, 2),
                            threshold_risco |-> int_vezes(median(ciclos), 3, 1),
                            threshold_dormente |-> int_vezes(median(ciclos), 3, 1),
                            total_recorrentes |-> Len(validos)]

-----------------------------------------------------------------------------
(* utils/sync.py *)

ThresholdRisco == 45
ThresholdDormente == 90

(* Store and source faults; one run meets at most one fault, this one or   *)
(* the failure to read the saved ids                                       *)
Falhas == {"nenhuma", "fetch", "append", "ler", "escrever", "escrever_apos_clear"}

(* "status" of the dict returned when append_aba raises *)
status_engolido == "success"
status_erro_salvar == "error"

Resultado(status, novos, total) ==
    [status |-> status, novos_pedidos |-> novos, total_clientes |-> total]

(* Step 2 of sincronizar_incremental: the rows kept as valid *)
pedido_valido(r) == ~r.cancelled_at /\ r.total_refunded < r.valor

(* "Pedido ID" as compared with the stored ids: astype(str).str.strip() *)
id_shopify(r) == strip(r.id)

(* The row as saved: the internal columns are dropped *)
linha_salvar(r) ==
    [id |-> r.id, data |-> r.data, cid |-> r.cid, cliente |-> r.cliente,
     email |-> r.email, valor |-> r.valor]

(* Step 7: "Data de criacao" parsed with errors="coerce" *)
normalizar_datas(df) ==
    DataFrame([i \in 1..Len(df) |-> [df[i] EXCEPT !.data = to_datetime(@)]])

(* Steps 6 to 10: the customer table computed from the ledger *)
reagregar(aba, agora) ==
    calcular_estado(agregar_por_cliente(normalizar_datas(ler_aba(aba)), agora),
                    ThresholdRisco, ThresholdDormente)

(* Step 3: the ids already saved; any exception leaves the empty set *)
ids_salvos(falha_ids) ==
    IF falha_ids THEN {} ELSE ler_ids_existentes(pedidos)

(* Steps 2 to 4: the new valid rows of a fetch *)
pedidos_novos(df_shopify, ids_existentes) ==
    LET df_validos == SelectSeq(df_shopify, pedido_valido)
        df_norm == [i \in 1..Len(df_validos) |->
                        [df_validos[i] EXCEPT !.id = id_shopify(df_validos[i])]]
        novo(r) == r.id \notin ids_existentes
    IN  SelectSeq(df_norm, novo)

(* The run on the rows the fetch returned, meeting one fault of falhas;    *)
(* "fetch" is the fetch raising ConnectionError, which no handler of the   *)
(* run catches                                                             *)
sincronizar_passos(df_shopify, falha_ids, falhas) ==
    \E df_novos \in {pedidos_novos(df_shopify, ids_salvos(falha_ids))} :
    \E gravados \in {IF Len(df_novos) > 0
                     THEN append_aba(pedidos,
                              [i \in 1..Len(df_novos) |-> linha_salvar(df_novos[i])])
                     ELSE pedidos} :
    \E df_clientes \in {reagregar(gravados, hoje)} :
    \E vistos \in {{[id |-> normalizar_id(id_shopify(df_shopify[i])),
                     cancelled_at |-> df_shopify[i].cancelled_at,
                     total_refunded |-> df_shopify[i].total_refunded,
                     valor |-> df_shopify[i].valor] :
                        i \in 1..Len(df_shopify)}} :
    LET sem_validos == SelectSeq(df_shopify, pedido_valido) = <<>>
        total_novos == Len(df_novos)
        le_ids == IF falha_ids THEN "ids" ELSE "nenhuma"
    IN  \E falha \in falhas :
        /\ ultima' = "sync"
        /\ UNCHANGED <<shopify, cancelados, hoje, entrada, saida>>
        /\ IF falha = "fetch"
           THEN /\ resultado' = Resultado("exception", 0, 0)
                /\ falhou' = "fetch"
                /\ UNCHANGED <<pedidos, clientes, fetched>>
           ELSE /\ fetched' = fetched \cup vistos
                /\ IF df_shopify = <<>> \/ sem_validos
                   THEN /\ resultado' = Resultado("warning", 0, 0)
                        /\ falhou' = "nenhuma"
                        /\ UNCHANGED <<pedidos, clientes>>
                   ELSE IF total_novos > 0 /\ falha = "append"
                   THEN /\ resultado' = Resultado(status_erro_salvar, 0, 0)
                        /\ falhou' = "append"
                        /\ UNCHANGED <<pedidos, clientes>>
                   ELSE /\ Len(gravados) <= MaxLinhas
                        /\ pedidos' = gravados
                        /\ IF falha = "ler"
                           THEN /\ resultado' = Resultado("error", total_novos, 0)
                                /\ falhou' = "ler"
                                /\ UNCHANGED clientes
                           ELSE IF gravados = <<>> \/ df_clientes = <<>>
                           THEN /\ resultado' = Resultado("warning", total_novos, 0)
                                /\ falhou' = le_ids
                                /\ UNCHANGED clientes
                           ELSE IF falha = "escrever"
                           THEN /\ resultado' = Resultado("error", total_novos,
                                                          Len(df_clientes))
                                /\ falhou' = "escrever"
                                /\ UNCHANGED clientes
                           ELSE IF falha = "escrever_apos_clear"
                           THEN /\ resultado' = Resultado("error", total_novos,
                                                          Len(df_clientes))
                                /\ falhou' = "escrever_apos_clear"
                                /\ clientes' = <<>>
                           ELSE /\ resultado' = Resultado("success", total_novos,
                                                          Len(df_clientes))
                                /\ falhou' = le_ids
                                /\ clientes' = escrever_aba(clientes, df_clientes)

sincronizar_incremental(dup, falha_ids) ==
    \E df_shopify \in {buscar_pedidos_pagos_direto(dup)} :
        sincronizar_passos(df_shopify, falha_ids,
                           IF falha_ids THEN {"nenhuma"} ELSE Falhas)

-----------------------------------------------------------------------------
(* The environment: the source gains the next order of Catalogo, cancels   *)
(* an order, a span of days passes                                         *)

NovoPedido ==
    /\ Cardinality(shopify) < NumPedidos
    /\ shopify' = shopify \cup {Cardinality(shopify) + 1}
    /\ ultima' = "env"
    /\ UNCHANGED <<cancelados, hoje, pedidos, clientes, resultado, fetched,
                   falhou, entrada, saida>>

CancelarPedido(i) ==
    /\ i \in shopify \ cancelados
    /\ ~Catalogo[i].cancelled_at
    /\ cancelados' = cancelados \cup {i}
    /\ ultima' = "env"
    /\ UNCHANGED <<shopify, hoje, pedidos, clientes, resultado, fetched,
                   falhou, entrada, saida>>

PassarDia ==
    /\ hoje < Hoje0 + MaxAvancos * PassoDias
    /\ hoje' = hoje + PassoDias
    /\ ultima' = "env"
    /\ UNCHANGED <<shopify, cancelados, pedidos, clientes, resultado, fetched,
                   falhou, entrada, saida>>

(* One run of the sync; the newest order may come twice in the fetch *)
Sincronizar ==
    \E dup \in {0, Cardinality(shopify)}, falha_ids \in BOOLEAN :
        sincronizar_incremental(dup, falha_ids)

Init ==
    /\ shopify = {}
    /\ cancelados = {}
    /\ hoje = Hoje0
    /\ pedidos = <<>>
    /\ clientes = <<>>
    /\ resultado = Resultado("none", 0, 0)
    /\ ultima = "init"
    /\ fetched = {}
    /\ falhou = "nenhuma"
    /\ entrada = <<>>
    /\ saida = <<>>

Next ==
    \/ NovoPedido
    \/ \E i \in Cancelaveis : CancelarPedido(i)
    \/ PassarDia
    \/ Sincronizar

Spec == Init /\ [][Next]_vars

-----------------------------------------------------------------------------
(* The loop of buscar_pedidos_pagos_direto, one response per step, followed *)
(* by the run that called it. The source holds the orders of shopify in     *)
(* pages of limit orders; a response is 200 with the page asked for, 429    *)
(* with or without a Retry-After header, or a 4xx / 5xx status.             *)

MaxEsperas == 2      \* 429 responses one fetch may meet
MaxLimit == 2        \* largest page size ("limit" of the request)

StatusHTTP == {200, 429, 404, 500}

(* Response headers: none, Retry-After in whole seconds, Retry-After with a *)
(* decimal point                                                            *)
Cabecalhos ==
    { {},
      {<<"Retry-After", <<"1">>>>},
      {<<"Retry-After", <<"2", ".", "0">>>>} }

tem_cabecalho(headers, nome) == \E h \in headers : h[1] = nome

cabecalho(headers, nome) == (CHOOSE h \in headers : h[1] = nome)[2]

(* int(text): the text is blanks around decimal digits, or ValueError *)
int_valido(s) ==
    LET t == strip(s) IN t # <<>> /\ \A i \in 1..Len(t) : isdigit(t[i])

int_texto(s) == to_numeric(strip(s), 0)

(* int(r.headers.get("Retry-After", 2)) raises ValueError *)
retry_after_invalido(headers) ==
    tem_cabecalho(headers, "Retry-After")
        /\ ~int_valido(cabecalho(headers, "Retry-After"))

(* int(r.headers.get("Retry-After", 2)) *)
retry_after(headers) ==
    IF tem_cabecalho(headers, "Retry-After")
    THEN int_texto(cabecalho(headers, "Retry-After"))
    ELSE 2

(* r.raise_for_status() raises HTTPError *)
raise_for_status_so_5xx(status) == status >= 500
raise_for_status(status) == status >= 400

(* The orders of page url, and the page the "next" link names (0: no link) *)
pagina(url, limit) ==
    LET idx == sorted_ints(shopify)
        ate == IF url * limit < Len(idx) THEN url * limit ELSE Len(idx)
    IN  DataFrame([k \in 1..(ate - (url - 1) * limit) |->
                      linha_shopify(idx[(url - 1) * limit + k])])

links_next(url, limit) ==
    IF url * limit < Cardinality(shopify) THEN url + 1 ELSE 0

(* r.json().get("orders", []) : only a 200 response carries orders *)
orders(status, url, limit) ==
    IF status = 200 THEN pagina(url, limit) ELSE <<>>

Busca(url, all_rows, estado, esperas, dormiu, status, limit) ==
    [url |-> url, all_rows |-> all_rows, estado |-> estado, esperas |-> esperas,
     dormiu |-> dormiu, status |-> status, limit |-> limit]

(* Line 80 to 83: the first request *)
IniciarBusca ==
    /\ ultima # "busca"
    /\ \E limit \in 1..MaxLimit :
           saida' = <<Busca(1, <<>>, "loop", 0, 0, 0, limit)>>
    /\ ultima' = "busca"
    /\ UNCHANGED <<shopify, cancelados, hoje, pedidos, clientes, resultado,
                   fetched, falhou, entrada>>

(* Lines 85 to 136: one turn of the loop on the response (status, headers) *)
Responder(status, headers) ==
    /\ ultima = "busca"
    /\ saida[1].estado = "loop"
    /\ LET b == saida[1]
           rows == orders(status, b.url, b.limit)
           next == links_next(b.url, b.limit)
       IN  IF status = 429
           THEN /\ b.esperas < MaxEsperas
                /\ IF retry_after_invalido(headers)
                   THEN saida' = <<[b EXCEPT !.estado = "ValueError",
                                             !.status = status]>>
                   ELSE saida' = <<[b EXCEPT !.esperas = @ + 1,
                                             !.dormiu = @ + retry_after(headers),
                                             !.status = status]>>
           ELSE IF raise_for_status(status)
           THEN saida' = <<[b EXCEPT !.estado = "ConnectionError",
                                     !.status = status]>>
           ELSE IF rows = <<>>
           THEN saida' = <<[b EXCEPT !.estado = "retornou", !.status = status]>>
           ELSE saida' = <<[b EXCEPT !.all_rows = @ \o rows,
                                     !.url = next,
                                     !.estado = IF next = 0 THEN "retornou"
                                                ELSE "loop",
                                     !.status = status]>>
    /\ entrada' = <<[status |-> status, headers |-> headers]>>
    /\ UNCHANGED <<shopify, cancelados, hoje, pedidos, clientes, resultado,
                   ultima, fetched, falhou>>

(* sincronizar_incremental on the outcome of the fetch: the DataFrame it    *)
(* returned, or the exception it raised                                     *)
SincronizarBusca ==
    /\ ultima = "busca"
    /\ saida[1].estado # "loop"
    /\ IF saida[1].estado = "retornou"
       THEN \E falha_ids \in BOOLEAN :
               sincronizar_passos(saida[1].all_rows, falha_ids,
                                  IF falha_ids THEN {"nenhuma"}
                                  ELSE Falhas \ {"fetch"})
       ELSE sincronizar_passos(<<>>, FALSE, {"fetch"})

InitBusca ==
    /\ \E n \in 0..NumPedidos : shopify = 1..n
    /\ cancelados = {}
    /\ hoje = Hoje0
    /\ pedidos = <<>>
    /\ clientes = <<>>
    /\ resultado = Resultado("none", 0, 0)
    /\ ultima = "init"
    /\ fetched = {}
    /\ falhou = "nenhuma"
    /\ entrada = <<>>
    /\ saida = <<>>

NextBusca ==
    \/ IniciarBusca
    \/ \E status \in StatusHTTP, headers \in Cabecalhos : Responder(status, headers)
    \/ SincronizarBusca

SpecBusca == InitBusca /\ [][NextBusca]_vars

-----------------------------------------------------------------------------
(* webhook_server.py: webhook_order_paid on the JSON object of one order *)

(* Lines 29 to 34: the order is skipped when it names no customer *)
webhook_sem_cliente(o) ==
    o.customer_id = <<>> \/ o.customer_id = <<"N", "o", "n", "e">>

(* Lines 37 to 42: pedido_id in df_pedidos["Pedido ID"].astype(str).values *)
webhook_duplicado(o, aba) ==
    LET df_pedidos == ler_aba(aba)
    IN  \E k \in 1..Len(df_pedidos) : df_pedidos[k].id = o.id

(* Lines 45 to 52: the row appended, whatever cancelled_at and refunds say *)
nova_linha(o) ==
    [id |-> o.id, data |-> o.created_at, cid |-> o.customer_id,
     cliente |-> o.nome, email |-> o.email, valor |-> o.total_price]

(* The JSON object of order i as the source holds it *)
payload(i) ==
    [Catalogo[i] EXCEPT !.cancelled_at = (@ \/ i \in cancelados)]

-----------------------------------------------------------------------------
(* Two ingestion runs against one store, run 1 a sync and run 2 a sync or a *)
(* webhook call, each in three steps: read the saved ids and choose the     *)
(* rows to add; append them;                                                *)
(* read the ledger back and overwrite the customer table.  saida[p] is run  *)
(* p: its kind, its position, the rows it chose, and whether one of its     *)
(* runs ever overlapped a run of the other; entrada is the order the last   *)
(* step received, if it was a webhook call.                                 *)

Runs == 1..2

Run(tipo, pc, df_novos, sobreposta) ==
    [tipo |-> tipo, pc |-> pc, df_novos |-> df_novos, sobreposta |-> sobreposta]

(* The positions of both runs after run p moves to pc with rows df *)
avancar(p, tipo, pc, df) ==
    LET q == 3 - p
        sobre == saida[p].sobreposta \/ saida[q].sobreposta
                    \/ saida[q].pc # "idle"
    IN  [r \in Runs |->
            IF r = p THEN Run(tipo, pc, df, sobre)
            ELSE [saida[q] EXCEPT !.sobreposta = sobre]]

(* sync.py steps 1 to 4: fetch, keep the valid rows, read the saved ids,    *)
(* keep the rows whose id is not among them                                 *)
LerBaseSync(p, falha_ids) ==
    /\ saida[p].pc = "idle"
    /\ \E df_shopify \in {buscar_pedidos_pagos_direto(0)} :
       \E df_novos \in {pedidos_novos(df_shopify, ids_salvos(falha_ids))} :
           /\ SelectSeq(df_shopify, pedido_valido) # <<>>
           /\ saida' = avancar(p, "sync", "lido",
                               [i \in 1..Len(df_novos) |-> linha_salvar(df_novos[i])])
    /\ ultima' = "sync"
    /\ entrada' = <<>>
    /\ UNCHANGED <<shopify, cancelados, hoje, pedidos, clientes, resultado,
                   fetched, falhou>>

(* webhook_server.py lines 21 to 52: the order is skipped, found saved, or *)
(* its row is chosen; entrada holds the order the call was about            *)
LerBaseWebhook(p, i) ==
    /\ saida[p].pc = "idle"
    /\ i \in shopify
    /\ entrada' = <<i>>
    /\ ultima' = "webhook"
    /\ IF webhook_sem_cliente(payload(i))
       THEN /\ resultado' = Resultado("skipped", 0, 0)
            /\ UNCHANGED saida
       ELSE IF webhook_duplicado(payload(i), pedidos)
       THEN /\ resultado' = Resultado("duplicate", 0, 0)
            /\ UNCHANGED saida
       ELSE /\ saida' = avancar(p, "webhook", "lido", <<nova_linha(payload(i))>>)
            /\ UNCHANGED resultado
    /\ UNCHANGED <<shopify, cancelados, hoje, pedidos, clientes, fetched, falhou>>

(* sync.py step 5, webhook_server.py line 54 *)
Gravar(p) ==
    /\ saida[p].pc = "lido"
    /\ Len(pedidos) + Len(saida[p].df_novos) <= MaxLinhas
    /\ pedidos' = IF saida[p].df_novos # <<>>
                  THEN append_aba(pedidos, saida[p].df_novos)
                  ELSE pedidos
    /\ saida' = [saida EXCEPT ![p].pc = "gravado"]
    /\ ultima' = saida[p].tipo
    /\ entrada' = <<>>
    /\ UNCHANGED <<shopify, cancelados, hoje, clientes, resultado, fetched,
                   falhou>>

(* sync.py steps 6 to 11, webhook_server.py lines 59 to 80 *)
Reagregar(p) ==
    /\ saida[p].pc = "gravado"
    /\ \E df_clientes \in {reagregar(pedidos, hoje)} :
           IF df_clientes = <<>>
           THEN /\ resultado' = Resultado("warning", Len(saida[p].df_novos), 0)
                /\ UNCHANGED clientes
           ELSE /\ resultado' = Resultado("success", Len(saida[p].df_novos),
                                          Len(df_clientes))
                /\ clientes' = escrever_aba(clientes, df_clientes)
    /\ saida' = [saida EXCEPT ![p].pc = "idle", ![p].df_novos = <<>>]
    /\ ultima' = saida[p].tipo
    /\ entrada' = <<>>
    /\ UNCHANGED <<shopify, cancelados, hoje, pedidos, fetched, falhou>>

InitConcorrente ==
    /\ \E n \in 1..NumPedidos : shopify = 1..n
    /\ cancelados = {}
    /\ hoje = Hoje0
    /\ pedidos = <<>>
    /\ clientes = <<>>
    /\ resultado = Resultado("none", 0, 0)
    /\ ultima = "init"
    /\ fetched = {}
    /\ falhou = "nenhuma"
    /\ entrada = <<>>
    /\ saida = [r \in Runs |-> Run("sync", "idle", <<>>, FALSE)]

NextConcorrente ==
    \/ \E p \in Runs, falha_ids \in BOOLEAN : LerBaseSync(p, falha_ids)
    \/ \E i \in Indices : LerBaseWebhook(2, i)
    \/ \E p \in Runs : Gravar(p)
    \/ \E p \in Runs : Reagregar(p)
    \/ \E i \in Cancelaveis : CancelarPedido(i)

SpecConcorrente == InitConcorrente /\ [][NextConcorrente]_vars

-----------------------------------------------------------------------------
(* cron_sync.py: main, the scheduled run.  utils/sync.py as kept here does  *)
(* not hold the two functions main imports; they are taken to be the two    *)
(* halves of the run: sincronizar_shopify_com_planilha fetches the orders   *)
(* created since data_inicio and appends the new valid ones,                *)
(* _reagregar_clientes rebuilds the customer table from the whole ledger.   *)

(* Fallback of descobrir_data_inicio: 2023-01-01, the first day *)
DataInicial == 0

(* descobrir_data_inicio: the newest "Data de criacao" of the ledger *)
descobrir_data_inicio(aba) ==
    LET df == normalizar_datas(ler_aba(aba))
        ultima_data == max_data(df)
    IN  IF df = <<>> \/ ultima_data = NaT THEN DataInicial ELSE ultima_data

(* The fetch with created_at_min = data_inicio *)
pedidos_desde(data_inicio) ==
    LET desde(r) == r.data >= data_inicio
    IN  SelectSeq(buscar_pedidos_pagos_direto(0), desde)

(* Step 1 of main: the ledger after the new valid orders are appended *)
sincronizar_shopify_com_planilha(data_inicio) ==
    LET df_novos == pedidos_novos(pedidos_desde(data_inicio),
                                  ler_ids_existentes(pedidos))
    IN  IF df_novos = <<>> THEN pedidos
        ELSE append_aba(pedidos,
                        [i \in 1..Len(df_novos) |-> linha_salvar(df_novos[i])])

(* Step 2 of main: the customer table rebuilt from the ledger *)
reagregar_clientes(aba) == escrever_aba(clientes, reagregar(aba, hoje))

(* main: falha = "reagregar" is _reagregar_clientes raising, which ends the *)
(* process after the orders were appended                                   *)
CronMain(falha) ==
    \E gravados \in {sincronizar_shopify_com_planilha(
                          descobrir_data_inicio(pedidos))} :
    LET total_novos == Len(gravados) - Len(pedidos)
    IN  /\ Len(gravados) <= MaxLinhas
        /\ pedidos' = gravados
        /\ ultima' = "cron"
        /\ UNCHANGED <<shopify, cancelados, hoje, fetched, entrada, saida>>
        /\ IF total_novos = 0
           THEN /\ resultado' = Resultado("success", 0, 0)
                /\ falhou' = "nenhuma"
                /\ UNCHANGED clientes
           ELSE IF falha = "reagregar"
           THEN /\ resultado' = Resultado("exception", total_novos, 0)
                /\ falhou' = "reagregar"
                /\ UNCHANGED clientes
           ELSE /\ resultado' = Resultado("success", total_novos,
                                          Len(reagregar_clientes(gravados)))
                /\ falhou' = "nenhuma"
                /\ clientes' = reagregar_clientes(gravados)

NextCron ==
    \/ NovoPedido
    \/ PassarDia
    \/ \E falha \in {"nenhuma", "reagregar"} : CronMain(falha)

SpecCron == Init /\ [][NextCron]_vars

-----------------------------------------------------------------------------
(* Ledgers as the claims read them *)

(* Worksheet of ignored orders: sincronizar_incremental drops the rows it   *)
(* filters out and no operation writes such a worksheet                     *)
pedidos_ignorados == <<>>

ids_validos == {normalizar_id(pedidos[i].id) : i \in 1..Len(pedidos)}

ids_ignorados ==
    {normalizar_id(pedidos_ignorados[i].id) : i \in 1..Len(pedidos_ignorados)}

(* The last operation was a sync run that returned without an error *)
SyncConcluido == ultima = "sync" /\ resultado.status \in {"success", "warning"}

(* C1. Idempotence: when a sync run follows a successful sync run with no   *)
(* change of the source or of the day in between, it appends no row to the  *)
(* ledger, reports 0 new orders and, when it writes the customer table,     *)
(* writes the table the first run wrote.                                    *)
C1_Idempotencia ==
    [][(ultima = "sync" /\ resultado.status = "success" /\ ultima' = "sync")
         => /\ pedidos' = pedidos
            /\ resultado'.novos_pedidos = 0
            /\ (resultado'.status = "success" => clientes' = clientes)]_vars

(* C2. Dedup invariant: the valid ledger never holds two rows with the same *)
(* normalized order id.                                                     *)
C2_UmaLinhaPorId ==
    \A i, j \in 1..Len(pedidos) :
        normalizar_id(pedidos[i].id) = normalizar_id(pedidos[j].id) => i = j

(* C3. Partition exclusivity: after a completed sync run every order id     *)
(* ever fetched is in exactly one of the valid ledger and the ignored       *)
(* ledger.                                                                  *)
C3_ParticaoExclusiva ==
    SyncConcluido =>
        \A f \in fetched : (f.id \in ids_validos) # (f.id \in ids_ignorados)

(* C4. Partitioning rule: after a completed sync run, a fetched order with  *)
(* no cancellation and refunded < total is in the valid ledger; any other   *)
(* fetched order is in the ignored ledger with motive CANCELLED when it has *)
(* a cancellation timestamp and REFUNDED otherwise, and is neither in the   *)
(* valid ledger nor in the customer table.                                  *)
C4_RegraDeParticao ==
    SyncConcluido =>
        \A f \in fetched :
            IF ~f.cancelled_at /\ f.total_refunded < f.valor
            THEN f.id \in ids_validos
            ELSE /\ \E i \in 1..Len(pedidos_ignorados) :
                        /\ normalizar_id(pedidos_ignorados[i].id) = f.id
                        /\ pedidos_ignorados[i].motivo =
                               IF f.cancelled_at THEN "CANCELLED" ELSE "REFUNDED"
                 /\ f.id \notin ids_validos

(* The ledger as agregar_por_cliente receives it *)
df_pedidos_lidos == normalizar_datas(ler_aba(pedidos))

linhas_da_chave(df, k) == {i \in 1..Len(df) : cliente_key(df[i]) = k}

RECURSIVE soma_indices(_, _)
soma_indices(df, S) ==
    IF S = {} THEN 0
    ELSE LET i == CHOOSE x \in S : TRUE
         IN  df[i].valor + soma_indices(df, S \ {i})

RECURSIVE soma_qtd(_)
soma_qtd(t) == IF t = <<>> THEN 0 ELSE Head(t).qtd + soma_qtd(Tail(t))

(* C5. Aggregate consistency: the aggregation of the ledger has exactly one *)
(* row per distinct customer key; the row's order count is the number of    *)
(* ledger rows with that key and its total is the sum of their amounts; the *)
(* order counts add up to the number of ledger rows.                        *)
C5_AgregadoConsistente ==
    LET df == df_pedidos_lidos
        t == agregar_com_chave(df, hoje)
        chaves == {cliente_key(df[i]) : i \in 1..Len(df)}
    IN  /\ Len(agregar_por_cliente(df, hoje)) = Cardinality(chaves)
        /\ \A k \in chaves :
              \E j \in 1..Len(t) :
                 /\ t[j].cliente_key = k
                 /\ \A j2 \in 1..Len(t) : t[j2].cliente_key = k => j2 = j
                 /\ t[j].qtd = Cardinality(linhas_da_chave(df, k))
                 /\ t[j].valor = soma_indices(df, linhas_da_chave(df, k))
        /\ soma_qtd(t) = Len(df)

(* A run has written the table of a ledger with two customers, one of them  *)
(* with two orders                                                          *)
C5_Witness ==
    /\ ultima = "sync" /\ resultado.status = "success"
    /\ clientes = reagregar(pedidos, hoje)
    /\ Len(clientes) >= 2
    /\ \E j \in 1..Len(clientes) : clientes[j].qtd >= 2 /\ clientes[j].valor >= 200

-----------------------------------------------------------------------------
(* The classifier on its own: two customer rows go through                  *)
(* _calcular_classificacao (step 4 of agregar_por_cliente) and              *)
(* calcular_estado.  The two rows agree on count and amount, or on          *)
(* "Dias sem comprar".                                                      *)

DiasSemComprar == {NaT, 0, 44, 45, 59, 60, 89, 90, 119, 120, 150}

Valores == {100, 499, 500, 1999, 2000, 4999, 5000}

(* threshold_risco, threshold_dormente: the values of sync.py and of the    *)
(* webhook, the example of calcular_estado's docstring, the thresholds of   *)
(* retorno_padrao                                                           *)
Thresholds == {<<45, 90>>, <<60, 120>>, <<90, 90>>}

Agregado(qtd, valor, dias) ==
    [customer_id |-> <<"5">>, cliente |-> "Ana", email |-> <<"a">>,
     qtd |-> qtd, valor |-> valor,
     primeiro |-> IF dias = NaT THEN NaT ELSE Hoje0 + PassoDias - dias,
     ultimo |-> IF dias = NaT THEN NaT ELSE Hoje0 + PassoDias - dias,
     dias |-> dias]

Agregados ==
    {Agregado(q, v, d) : q \in 1..MaxQtd, v \in Valores, d \in DiasSemComprar}

InitClassificar ==
    /\ shopify = {}
    /\ cancelados = {}
    /\ hoje = Hoje0 + PassoDias
    /\ pedidos = <<>>
    /\ clientes = <<>>
    /\ resultado = Resultado("none", 0, 0)
    /\ ultima = "init"
    /\ fetched = {}
    /\ falhou = "nenhuma"
    /\ saida = <<>>
    /\ \E a \in Agregados, b \in Agregados, t \in Thresholds :
          /\ (a.qtd = b.qtd /\ a.valor = b.valor) \/ a.dias = b.dias
          /\ entrada = [df |-> <<a, b>>, threshold_risco |-> t[1],
                        threshold_dormente |-> t[2]]

com_nivel(r) ==
    [customer_id |-> r.customer_id, cliente |-> r.cliente, email |-> r.email,
     qtd |-> r.qtd, valor |-> r.valor, primeiro |-> r.primeiro,
     ultimo |-> r.ultimo, dias |-> r.dias,
     nivel |-> calcular_classificacao(r.qtd, r.valor, r.dias)]

Classificar ==
    /\ saida = <<>>
    /\ saida' = <<calcular_estado(
                      [j \in 1..Len(entrada.df) |-> com_nivel(entrada.df[j])],
                      entrada.threshold_risco, entrada.threshold_dormente)>>
    /\ ultima' = "classificar"
    /\ UNCHANGED <<shopify, cancelados, hoje, pedidos, clientes, resultado,
                   fetched, falhou, entrada>>

NextClassificar == Classificar

SpecClassificar == InitClassificar /\ [][NextClassificar]_vars

Classificado == ultima = "classificar"

(* Active < AtRisk < Dormant *)
ordem_estado(e) ==
    CASE e = "Ativo" -> 0 [] e = "Em risco" -> 1 [] e = "Dormente" -> 2

C7_EstadoMonotono ==
    Classificado =>
        \A i, j \in 1..Len(entrada.df) :
            (/\ entrada.df[i].dias # NaT
             /\ entrada.df[j].dias # NaT
             /\ entrada.df[i].dias <= entrada.df[j].dias)
            => ordem_estado(saida[1][i].estado) <= ordem_estado(saida[1][j].estado)

(* Two rows on the two sides of both thresholds *)
C7_Witness ==
    /\ Classificado
    /\ entrada.df[1].dias = 44 /\ entrada.df[2].dias = 120
    /\ saida[1][1].estado = "Ativo" /\ saida[1][2].estado = "Dormente"

(* Tier decided from count and amount alone, as the tier table reads *)
nivel_sem_recencia(qtd, valor) ==
    IF qtd >= 5 \/ valor >= 5000 THEN "Campeao"
    ELSE IF qtd >= 3 \/ valor >= 2000 THEN "Leal"
    ELSE IF qtd >= 2 \/ valor >= 500 THEN "Promissor"
    ELSE "Iniciante"

faixa_recencia(dias) ==
    IF dias = NaT THEN 3
    ELSE IF dias < 60 THEN 0
    ELSE IF dias < 90 THEN 1
    ELSE IF dias < 120 THEN 2
    ELSE 3

-----------------------------------------------------------------------------
(* The outcome of a run against the faults of the store *)

(* C14. Persist failures: when append_aba raises, the run does not return   *)
(* "success", it reports 0 orders added and it leaves the customer table as *)
(* it was; when escrever_aba raises, the run does not return "success".     *)
C14_FalhaDePersistencia ==
    [][ ultima' = "sync" =>
          /\ falhou' = "append" =>
                /\ resultado'.status # "success"
                /\ resultado'.novos_pedidos = 0
                /\ clientes' = clientes
          /\ falhou' \in {"escrever", "escrever_apos_clear"} =>
                resultado'.status # "success" ]_vars

(* append_aba raised in a run that had new orders and a customer table *)
C14_Witness ==
    /\ ultima = "sync"
    /\ falhou = "append"
    /\ resultado.status = "error"
    /\ clientes # <<>>

(* Every order of the source is in the ledger (by normalized id) *)
fonte_ja_gravada ==
    \A i \in shopify : normalizar_id(strip(Catalogo[i].id)) \in ids_validos

(* C15. Zero new orders: a run that meets no fault while every order of the *)
(* source, if any, is already in the ledger returns a result with status    *)
(* "success" and 0 orders added.                                            *)
C15_ZeroNovosSucesso ==
    [][ (ultima' = "sync" /\ falhou' = "nenhuma" /\ fonte_ja_gravada) =>
          /\ resultado'.status = "success"
          /\ resultado'.novos_pedidos = 0 ]_vars

-----------------------------------------------------------------------------
(* Interleaved runs as the claims read them *)

(* No run has yet begun while the other was under way *)
Serializado == \A r \in Runs : ~saida[r].sobreposta

(* One order id is on two rows of the ledger *)
id_repetido ==
    \E i, j \in 1..Len(pedidos) : i < j /\ pedidos[i].id = pedidos[j].id

(* C16. Re-entrancy race: as long as the ingestion runs (two syncs, or a    *)
(* sync and a webhook call) are strictly serialized, no order id is on two  *)
(* rows of the ledger; two rows with one id are reachable only when a run   *)
(* reads the saved ids while another has read them and not yet appended.    *)
C16_SerializadoSemDuplicata == Serializado => ~id_repetido

(* Two runs read the saved ids before either appended, and both appended *)
C16_Corrida == ~Serializado /\ id_repetido

-----------------------------------------------------------------------------
(* The customer table against the ledger *)

(* C17. Self-healing: when a run ended after appending orders and before    *)
(* overwriting the customer table, the next run that completes with status  *)
(* "success", with or without new orders, leaves the customer table equal   *)
(* to the aggregation of the whole ledger.                                  *)
C17_AutoCura ==
    [][ (falhou = "reagregar" /\ ultima' = "cron"
            /\ resultado'.status = "success") =>
          clientes' = reagregar(pedidos', hoje') ]_vars

(* The customer key of a row of the customer table *)
chave_da_linha(r) == cliente_key([cid |-> r.customer_id, email |-> r.email])

(* C18. Materialized view: after every run that returns "success" the       *)
(* customer table is the aggregation and classification of the whole ledger *)
(* on the current day: one row per customer key of the ledger, no other     *)
(* row, each with the number of ledger rows of its key.                     *)
C18_VisaoMaterializada ==
    (ultima = "sync" /\ resultado.status = "success") =>
        LET df == df_pedidos_lidos
            chaves == {cliente_key(df[i]) : i \in 1..Len(df)}
        IN  /\ clientes = reagregar(pedidos, hoje)
            /\ Len(clientes) = Cardinality(chaves)
            /\ {chave_da_linha(clientes[j]) : j \in 1..Len(clientes)} = chaves
            /\ \A j \in 1..Len(clientes) :
                  clientes[j].qtd =
                      Cardinality(linhas_da_chave(df, chave_da_linha(clientes[j])))

(* A run added one order to a ledger of two rows and rewrote the table on   *)
(* a later day                                                              *)
C18_Witness ==
    /\ ultima = "sync" /\ resultado.status = "success"
    /\ resultado.novos_pedidos = 1
    /\ Len(pedidos) >= 3
    /\ hoje > Hoje0
    /\ Len(clientes) = 2

(* C19. Append-only ledger: no step of a sync run or of a webhook call     *)
(* removes, moves or changes a row of the ledger; the row of an order stays *)
(* as it was saved when the source later reports the order cancelled.       *)
C19_LedgerSoCresce ==
    [][ /\ Len(pedidos') >= Len(pedidos)
        /\ \A k \in 1..Len(pedidos) : pedidos'[k] = pedidos[k] ]_vars

(* Order 7 was saved, the source then marked it cancelled, and a later run  *)
(* that fetched it appended another order                                   *)
C19_Witness ==
    /\ 1 \in cancelados
    /\ ultima = "sync"
    /\ \A r \in Runs : saida[r].pc = "idle"
    /\ Len(pedidos) >= 2
    /\ pedidos[1] = linha_salvar([linha_shopify(1) EXCEPT !.cancelled_at = FALSE])
    /\ resultado.novos_pedidos >= 1

(* The rows a sync run appends when its fetch returns order i alone *)
sync_de_um(i) ==
    LET df_novos == pedidos_novos(<<linha_shopify(i)>>, ler_ids_existentes(pedidos))
    IN  [k \in 1..Len(df_novos) |-> linha_salvar(df_novos[k])]

(* The webhook call receives an order; the rows it chooses to append *)
PassoWebhook ==
    /\ ultima' = "webhook"
    /\ saida' = saida \/ \E r \in Runs : saida[r].pc = "idle" /\ saida'[r].pc = "lido"

escolhidas ==
    IF saida' = saida THEN <<>>
    ELSE saida'[CHOOSE r \in Runs : saida'[r].pc # saida[r].pc].df_novos

(* C20. Webhook path: a webhook call about one order chooses the rows that  *)
(* a sync run fetching that order alone would append: none for a cancelled  *)
(* or fully refunded order, none for an order whose normalized id is saved, *)
(* the order's row otherwise, with or without a customer id.                *)
C20_WebhookComoLoteDeUm ==
    [][ PassoWebhook => escolhidas = sync_de_um(entrada'[1]) ]_vars

-----------------------------------------------------------------------------
(* The fetch loop as the claims read it *)

(* A step of the loop, and the step of the run that follows the fetch *)
PassoDaBusca == ultima = "busca" /\ ultima' = "busca" /\ saida[1].estado = "loop"

PassoDoSync == ultima = "busca" /\ ultima' = "sync"

(* The seconds a Retry-After text names: its digits before the point *)
RECURSIVE segundos(_, _)
segundos(s, acc) ==
    IF s = <<>> \/ ~isdigit(Head(s)) THEN acc
    ELSE segundos(Tail(s), 10 * acc + to_numeric(<<Head(s)>>, 0))

(* C12. Rate-limit handling: a 429 response raises no error, records no     *)
(* order and moves to no other page; the loop waits the seconds the         *)
(* response names and asks for the same page again, so that the rows of a   *)
(* fetch that returns are those of the pages of the source, each once.      *)
C12_RateLimit ==
    [][ /\ (PassoDaBusca /\ entrada'[1].status = 429) =>
              /\ saida'[1].estado = "loop"
              /\ saida'[1].url = saida[1].url
              /\ saida'[1].all_rows = saida[1].all_rows
              /\ tem_cabecalho(entrada'[1].headers, "Retry-After") =>
                    saida'[1].dormiu = saida[1].dormiu
                        + segundos(cabecalho(entrada'[1].headers, "Retry-After"), 0)
        /\ (PassoDaBusca /\ saida'[1].estado = "retornou") =>
              saida'[1].all_rows = buscar_pedidos_pagos_direto(0) ]_vars

(* C13. Fatal source errors: a response that is neither 200 nor 429 ends    *)
(* the fetch with ConnectionError; the run whose fetch raised reaches its   *)
(* caller as an exception and leaves the ledger and the customer table as   *)
(* they were; a run that returns a result had every page of the source.     *)
C13_ErroFatalAborta ==
    [][ /\ (PassoDaBusca /\ entrada'[1].status \notin {200, 429}) =>
              saida'[1].estado = "ConnectionError"
        /\ (PassoDoSync /\ saida[1].estado # "retornou") =>
              /\ resultado'.status = "exception"
              /\ pedidos' = pedidos
              /\ clientes' = clientes
        /\ (PassoDoSync /\ resultado'.status # "exception") =>
              /\ saida[1].estado = "retornou"
              /\ saida[1].all_rows = buscar_pedidos_pagos_direto(0) ]_vars

(* A second run whose fetch failed on its second page, after a first run    *)
(* that saved rows                                                          *)
C13_Witness ==
    /\ ultima = "sync"
    /\ resultado.status = "exception"
    /\ saida[1].estado = "ConnectionError"
    /\ saida[1].all_rows # <<>>
    /\ pedidos # <<>>

-----------------------------------------------------------------------------
(* calcular_ciclo_medio on its own, on customer tables of up to MaxClientes *)
(* rows: one order; two orders the same day; two orders 10 days apart;      *)
(* three orders over 5 days; two orders without a readable date             *)

TiposDeCliente ==
    { [qtd |-> 1, primeiro |-> 0, ultimo |-> 0],
      [qtd |-> 2, primeiro |-> 0, ultimo |-> 0],
      [qtd |-> 2, primeiro |-> 0, ultimo |-> 10],
      [qtd |-> 3, primeiro |-> 0, ultimo |-> 5],
      [qtd |-> 2, primeiro |-> NaT, ultimo |-> NaT] }

InitCiclo ==
    /\ shopify = {}
    /\ cancelados = {}
    /\ hoje = Hoje0
    /\ pedidos = <<>>
    /\ clientes = <<>>
    /\ resultado = Resultado("none", 0, 0)
    /\ ultima = "init"
    /\ fetched = {}
    /\ falhou = "nenhuma"
    /\ saida = <<>>
    /\ \E n \in 0..MaxClientes : entrada \in [1..n -> TiposDeCliente]

EstimarCiclo ==
    /\ saida = <<>>
    /\ saida' = <<calcular_ciclo_medio(entrada)>>
    /\ ultima' = "ciclo"
    /\ UNCHANGED <<shopify, cancelados, hoje, pedidos, clientes, resultado,
                   fetched, falhou, entrada>>

NextCiclo == EstimarCiclo

SpecCiclo == InitCiclo /\ [][NextCiclo]_vars

(* The sample the statistics are taken from *)
amostra_filtrada ==
    LET usado(r) == r.qtd >= 2 /\ r.primeiro # NaT /\ r.ultimo # NaT
                    /\ r.ultimo - r.primeiro > 0
    IN  SelectSeq(entrada, usado)

(* C10. Cycle-estimator fallback: when fewer than 5 customers have 2 or     *)
(* more orders and a cycle > 0, calcular_ciclo_medio returns no median and  *)
(* the fixed thresholds 45 and 90; it returns thresholds taken from the     *)
(* data only when that sample has 5 members or more.                        *)
C10_FallbackAmostraPequena ==
    ultima = "ciclo" =>
        /\ Len(amostra_filtrada) < 5 =>
              /\ saida[1].ciclo_mediana = NaT
              /\ saida[1].threshold_ativo = 45
              /\ saida[1].threshold_dormente = 90
        /\ saida[1].ciclo_mediana # NaT => Len(amostra_filtrada) >= 5

(* The median of the cycles of the sample, as a fraction *)
mediana_da_amostra ==
    median([i \in 1..Len(amostra_filtrada) |-> ciclo_medio(amostra_filtrada[i])])

(* t is x * p / q rounded to the nearest integer (either way on a tie) *)
arredondado(t, x, p, q) ==
    /\ 2 * (t * x[2] * q - x[1] * p) <= x[2] * q
    /\ 2 * (x[1] * p - t * x[2] * q) <= x[2] * q

(* C11. Threshold derivation: when the thresholds are taken from the data,  *)
(* the risk threshold is the median cycle times 1.5 rounded to the nearest  *)
(* integer and the dormant threshold is the median cycle times 3 rounded to *)
(* the nearest integer (not truncated), so that risk <= dormant.            *)
C11_LimiaresArredondados ==
    (ultima = "ciclo" /\ saida[1].ciclo_mediana # NaT) =>
        /\ arredondado(saida[1].threshold_ativo, mediana_da_amostra, 3, 2)
        /\ arredondado(saida[1].threshold_dormente, mediana_da_amostra, 3, 1)
        /\ saida[1].threshold_ativo <= saida[1].threshold_dormente

-----------------------------------------------------------------------------
(* The rows one run put at the end of the ledger *)
anexadas == SubSeq(pedidos', Len(pedidos) + 1, Len(pedidos'))

(* C21. Ordering of the dedup baseline: the ids a run tests its fetched     *)
(* orders against are the ids the ledger held when the run began, updated   *)
(* with every row the run itself has appended so far; so the rows one run   *)
(* appends carry ids that are not in the ledger the run found (when the     *)
(* read of the ids succeeded) and that differ one from another.             *)
C21_BaselineAtualizada ==
    [][ (ultima' = "sync" /\ Len(pedidos') > Len(pedidos)) =>
            /\ falhou' # "ids" =>
                  \A k \in 1..Len(anexadas) :
                      anexadas[k].id \notin ler_ids_existentes(pedidos)
            /\ \A j, k \in 1..Len(anexadas) :
                  j # k => anexadas[j].id # anexadas[k].id ]_vars

(* The valid rows a fetch has received so far are saved in the ledger aba *)
lotes_gravados(b, aba) ==
    \A k \in 1..Len(b.all_rows) :
        pedido_valido(b.all_rows[k]) =>
            normalizar_id(id_shopify(b.all_rows[k])) \in ler_ids_existentes(aba)

(* C22. Streaming persistence: the valid orders of a page are in the ledger *)
(* before the next page is asked for, so when the fetch aborts on a later   *)
(* page the valid orders of the pages already received stay in the ledger.  *)
C22_PersistenciaPorLote ==
    [][ /\ (PassoDaBusca /\ saida'[1].estado = "loop"
                /\ saida'[1].url # saida[1].url) =>
              lotes_gravados(saida'[1], pedidos')
        /\ (PassoDoSync /\ saida[1].estado # "retornou") =>
              lotes_gravados(saida[1], pedidos') ]_vars

-----------------------------------------------------------------------------
(* The fetch loop without the cap on the 429 responses: the loop keeps no   *)
(* count of its retries, so a 429 turn is open after MaxEsperas of them as  *)
(* well; esperas and dormiu, which only record the turns taken, stay at     *)
(* the values they reached.                                                 *)

(* Lines 90 to 93 after MaxEsperas earlier 429 responses: sleep, continue *)
RetentarSempre(headers) ==
    /\ ultima = "busca"
    /\ saida[1].estado = "loop"
    /\ saida[1].esperas = MaxEsperas
    /\ ~retry_after_invalido(headers)
    /\ saida' = <<[saida[1] EXCEPT !.status = 429]>>
    /\ entrada' = <<[status |-> 429, headers |-> headers]>>
    /\ UNCHANGED <<shopify, cancelados, hoje, pedidos, clientes, resultado,
                   ultima, fetched, falhou>>

(* One turn of "while url:", whatever the source answers *)
TurnoDaBusca ==
    \/ \E status \in StatusHTTP, headers \in Cabecalhos : Responder(status, headers)
    \/ \E headers \in Cabecalhos : RetentarSempre(headers)

NextBuscaJusta ==
    \/ IniciarBusca
    \/ \E status \in StatusHTTP, headers \in Cabecalhos : Responder(status, headers)
    \/ \E headers \in Cabecalhos : RetentarSempre(headers)
    \/ SincronizarBusca

(* The process that runs the loop keeps running: a turn that can be taken   *)
(* is taken. What the source answers is not constrained.                    *)
SpecBuscaJusta == InitBusca /\ [][NextBuscaJusta]_vars /\ WF_vars(TurnoDaBusca)

(* C23. Bounded retry and termination: a fetch loop that has begun          *)
(* eventually returns its rows or aborts with an error, whatever the source *)
(* answers; the 429 responses to one request cannot keep it retrying for    *)
(* ever.                                                                    *)
C23_BuscaTermina ==
    (ultima = "busca" /\ saida[1].estado = "loop")
        ~> (ultima # "busca" \/ saida[1].estado # "loop")

-----------------------------------------------------------------------------
(* Steps 6 to 11 of sincronizar_incremental on their own: the customer      *)
(* table of a ledger of up to MaxLinhas of the rows below, in any order.    *)
(* The rows are those of one customer with id 5 (one of them with a         *)
(* "Data de criacao" that does not parse, two of them on the same day) and  *)
(* of orders without customer id, whose e-mails differ in case and blanks.  *)

Linha(id, data, cid, cliente, email, valor) ==
    [id |-> id, data |-> data, cid |-> cid, cliente |-> cliente,
     email |-> email, valor |-> valor]

LinhasDoLedger ==
    { Linha(<<"1">>, 10, <<"5">>, "Ana", <<"a">>, 100),
      Linha(<<"2">>, 60, <<"5">>, "Ana B", <<"b">>, 5000),
      Linha(<<"3">>, NaT, <<"5">>, "Ana C", <<"a">>, 300),
      Linha(<<"4">>, 60, <<"5">>, "Ana D", <<"b">>, 100),
      Linha(<<"5">>, 70, <<>>, "Bia", <<" ", "A">>, 500),
      Linha(<<"6">>, 30, <<" ">>, "Bia B", <<"a">>, 100),
      Linha(<<"7">>, NaT, <<>>, "Caio", <<"B">>, 100) }

Ledgers ==
    UNION { {aba \in [1..n -> LinhasDoLedger] :
                \A i, j \in 1..n : i # j => aba[i] # aba[j]} : n \in 1..MaxLinhas }

InitAgregar ==
    /\ shopify = {}
    /\ cancelados = {}
    /\ hoje = Hoje0
    /\ pedidos \in Ledgers
    /\ clientes = <<>>
    /\ resultado = Resultado("none", 0, 0)
    /\ ultima = "init"
    /\ fetched = {}
    /\ falhou = "nenhuma"
    /\ entrada = <<>>
    /\ saida = <<>>

(* calcular_estatisticas: the rows of the table counted by "Nivel" and by   *)
(* "Estado"                                                                 *)
com_nivel_igual(df_clientes, nivel) ==
    Cardinality({j \in 1..Len(df_clientes) : df_clientes[j].nivel = nivel})

com_estado_igual(df_clientes, estado) ==
    Cardinality({j \in 1..Len(df_clientes) : df_clientes[j].estado = estado})

calcular_estatisticas(df_clientes) ==
    [total_clientes |-> Len(df_clientes),
     campeoes |-> com_nivel_igual(df_clientes, "Campeao"),
     leais |-> com_nivel_igual(df_clientes, "Leal"),
     promissores |-> com_nivel_igual(df_clientes, "Promissor"),
     novos |-> com_nivel_igual(df_clientes, "Novo"),
     ativos |-> com_estado_igual(df_clientes, "Ativo"),
     em_risco |-> com_estado_igual(df_clientes, "Em risco"),
     dormentes |-> com_estado_igual(df_clientes, "Dormente")]

(* Steps 6 to 12: read the ledger, aggregate, classify, overwrite the       *)
(* table, count the rows by level and by state                              *)
ReagregarLedger ==
    /\ ultima = "init"
    /\ \E df_clientes \in {reagregar(pedidos, hoje)} :
          /\ clientes' = escrever_aba(clientes, df_clientes)
          /\ resultado' = Resultado("success", 0, Len(df_clientes))
          /\ saida' = <<calcular_estatisticas(df_clientes)>>
    /\ ultima' = "agregar"
    /\ UNCHANGED <<shopify, cancelados, hoje, pedidos, fetched, falhou,
                   entrada>>

NextAgregar == ReagregarLedger

SpecAgregar == InitAgregar /\ [][NextAgregar]_vars

(* Ledger rows of key k whose "Data de criacao" parsed *)
linhas_com_data(df, k) == {i \in linhas_da_chave(df, k) : df[i].data # NaT}

(* C24. Unparseable timestamps: in the customer table of a ledger, an order *)
(* whose creation time does not parse is left out of the order count and of *)
(* the first and last order time of its customer; the customer has a row    *)
(* all the same; a row without last order time has no days-since-last-order *)
(* (not 0).                                                                 *)
C24_DataInvalida ==
    ultima = "agregar" =>
        LET df == df_pedidos_lidos
            chaves == {cliente_key(df[i]) : i \in 1..Len(df)}
        IN  /\ {chave_da_linha(clientes[j]) : j \in 1..Len(clientes)} = chaves
            /\ \A j \in 1..Len(clientes) :
                  LET com_data == linhas_com_data(df, chave_da_linha(clientes[j]))
                      datas == {df[i].data : i \in com_data}
                  IN  /\ clientes[j].qtd = Cardinality(com_data)
                      /\ clientes[j].primeiro \in
                            IF datas = {} THEN {NaT}
                            ELSE {d \in datas : \A e \in datas : d <= e}
                      /\ clientes[j].ultimo \in
                            IF datas = {} THEN {NaT}
                            ELSE {d \in datas : \A e \in datas : d >= e}
                      /\ clientes[j].ultimo = NaT => clientes[j].dias = NaT

-----------------------------------------------------------------------------
(* An order row without customer id, and its e-mail lowercased and trimmed *)
sem_customer_id(r) == strip(r.cid) = <<>>

email_normalizado(r) == strip(lower(r.email))

(* The rows of ledger aba without customer id are aggregated by e-mail:     *)
(* each is counted in the one aggregate of its normalized e-mail, which     *)
(* counts those rows and no other                                           *)
agregados_por_email(aba, agora) ==
    LET df == normalizar_datas(ler_aba(aba))
        t == agregar_com_chave(df, agora)
    IN  \A i \in 1..Len(df) :
            sem_customer_id(df[i]) =>
                \E j \in 1..Len(t) :
                    /\ t[j].cliente_key =
                           <<"E", "M", "A", "I", "L", "_">> \o email_normalizado(df[i])
                    /\ t[j].qtd =
                           Cardinality({k \in 1..Len(df) :
                               /\ sem_customer_id(df[k])
                               /\ email_normalizado(df[k]) = email_normalizado(df[i])})

(* C25. Customer-key fallback: an order without customer id is keyed by its *)
(* lowercased, trimmed e-mail: two such orders share an aggregate exactly   *)
(* when those e-mails are equal and none is merged with an order that has a *)
(* customer id; such an order is dropped neither from the aggregation nor   *)
(* from ingestion (a webhook call about it does not skip it).               *)
C25_ChavePorEmail ==
    [][ /\ agregados_por_email(pedidos', hoje')
        /\ (ultima' = "webhook" /\ sem_customer_id([cid |-> payload(entrada'[1]).customer_id])) =>
               resultado'.status # "skipped" ]_vars

-----------------------------------------------------------------------------
(* Ledger rows of key k with the greatest "Data de criacao" of the key; all *)
(* rows of the key when none of its dates parsed                            *)
linhas_mais_recentes(df, k) ==
    IF linhas_com_data(df, k) = {} THEN linhas_da_chave(df, k)
    ELSE {i \in linhas_com_data(df, k) :
             \A e \in linhas_com_data(df, k) : df[i].data >= df[e].data}

(* C26. Last-seen identity: the name and the e-mail of a customer row are   *)
(* those of the order of the customer with the greatest creation time (of   *)
(* one of them when several orders share that time), in whatever order the  *)
(* orders were appended to the ledger.                                      *)
C26_IdentidadeMaisRecente ==
    ultima = "agregar" =>
        LET df == df_pedidos_lidos
        IN  \A j \in 1..Len(clientes) :
                \E i \in linhas_mais_recentes(df, chave_da_linha(clientes[j])) :
                    /\ clientes[j].cliente = df[i].cliente
                    /\ clientes[j].email = df[i].email

-----------------------------------------------------------------------------
(* Steps 9 to 11 of sincronizar_incremental on their own, on the table      *)
(* agregar_por_cliente returned in step 8: up to MaxClientes customers of   *)
(* the kinds of TiposDeCliente, seen on day DiaDaRodada.                    *)

DiaDaRodada == 30

(* Row j of df_clientes after step 8 *)
linha_agregada(t, j, agora) ==
    [customer_id |-> int_str(j), cliente |-> "Ana", email |-> <<"a">>,
     qtd |-> t.qtd, valor |-> 100 * t.qtd,
     primeiro |-> t.primeiro, ultimo |-> t.ultimo,
     dias |-> dias_sem_comprar(agora, t.ultimo),
     nivel |-> calcular_classificacao(t.qtd, 100 * t.qtd,
                                      dias_sem_comprar(agora, t.ultimo))]

InitLimiares ==
    /\ shopify = {}
    /\ cancelados = {}
    /\ hoje = DiaDaRodada
    /\ pedidos = <<>>
    /\ clientes = <<>>
    /\ resultado = Resultado("none", 0, 0)
    /\ ultima = "init"
    /\ fetched = {}
    /\ falhou = "nenhuma"
    /\ saida = <<>>
    /\ \E n \in 1..MaxClientes :
       \E tipos \in [1..n -> TiposDeCliente] :
           entrada = [j \in 1..n |-> linha_agregada(tipos[j], j, DiaDaRodada)]

(* Steps 9 to 11: calcular_estado with the thresholds of the call, then the *)
(* table is overwritten                                                     *)
CalcularEstados ==
    /\ ultima = "init"
    /\ clientes' = escrever_aba(clientes,
                       calcular_estado(entrada, ThresholdRisco, ThresholdDormente))
    /\ resultado' = Resultado("success", 0, Len(entrada))
    /\ ultima' = "estados"
    /\ UNCHANGED <<shopify, cancelados, hoje, pedidos, fetched, falhou,
                   entrada, saida>>

NextLimiares == CalcularEstados

SpecLimiares == InitLimiares /\ [][NextLimiares]_vars

(* C27. Data-driven thresholds: the states a run writes are those of the    *)
(* thresholds that the cycle estimator derives from the aggregates of that  *)
(* run (its fixed defaults when it falls back), not of constants of the     *)
(* run itself.                                                              *)
C27_LimiaresDoCiclo ==
    ultima = "estados" =>
        LET ciclo == calcular_ciclo_medio(entrada)
        IN  clientes = calcular_estado(entrada, ciclo.threshold_ativo,
                                       ciclo.threshold_dormente)

-----------------------------------------------------------------------------
(* C28. Failure of the baseline read: a run whose read of the saved ids     *)
(* fails on a ledger that has rows does not go on with an empty baseline:   *)
(* it appends no order whose id the ledger already holds.                   *)
C28_FalhaNaLeituraDosIds ==
    [][ (ultima' = "sync" /\ falhou' = "ids" /\ pedidos # <<>>) =>
            \A k \in 1..Len(anexadas) :
                \A i \in 1..Len(pedidos) :
                    anexadas[k].id # ler_aba(pedidos)[i].id ]_vars

-----------------------------------------------------------------------------
(* The level names the statistics count *)
NiveisContados == {"Campeao", "Leal", "Promissor", "Novo"}

(* C29. Tier domain and statistics: every row of the customer table has one *)
(* of the levels Campeao, Leal, Promissor, Novo, so the four level counts   *)
(* of the statistics add up to the number of customers, as the three state  *)
(* counts do.                                                               *)
C29_NiveisSomamTotal ==
    ultima = "agregar" =>
        /\ \A j \in 1..Len(clientes) : clientes[j].nivel \in NiveisContados
        /\ saida[1].campeoes + saida[1].leais + saida[1].promissores
               + saida[1].novos = saida[1].total_clientes
        /\ saida[1].ativos + saida[1].em_risco + saida[1].dormentes
               = saida[1].total_clientes

-----------------------------------------------------------------------------
(* webhook_server.py: webhook_order_paid as one call, on the JSON object of *)
(* an order of the source whose "id" is present, missing or null.  entrada  *)
(* holds the order and the "id" field of the last call.                     *)

CamposId == {"presente", "ausente", "nulo"}

(* Line 22: pedido_id = str(pedido_data.get("id", "")) *)
pedido_id(o, campo_id) ==
    CASE campo_id = "presente" -> o.id
      [] campo_id = "ausente" -> <<>>
      [] campo_id = "nulo" -> <<"N", "o", "n", "e">>

(* The fault a call may meet in the store: none, or append_aba raises *)
FalhasWebhook == {"nenhuma", "append"}

WebhookOrderPaid(i, campo_id, falha) ==
    /\ i \in shopify
    /\ entrada' = <<[pedido |-> i, campo_id |-> campo_id]>>
    /\ ultima' = "webhook"
    /\ \E o \in {[payload(i) EXCEPT !.id = pedido_id(payload(i), campo_id)]} :
          IF webhook_sem_cliente(o)
          THEN /\ falha = "nenhuma"
               /\ resultado' = Resultado("skipped", 0, 0)
               /\ UNCHANGED <<pedidos, clientes>>
          ELSE IF webhook_duplicado(o, pedidos)
          THEN /\ falha = "nenhuma"
               /\ resultado' = Resultado("duplicate", 0, 0)
               /\ UNCHANGED <<pedidos, clientes>>
          ELSE IF falha = "append"
          THEN /\ resultado' = Resultado("error", 0, 0)
               /\ UNCHANGED <<pedidos, clientes>>
          ELSE \E gravados \in {append_aba(pedidos, <<nova_linha(o)>>)} :
               \E df_clientes \in {reagregar(gravados, hoje)} :
                  /\ Len(gravados) <= MaxLinhas
                  /\ pedidos' = gravados
                  /\ clientes' = escrever_aba(clientes, df_clientes)
                  /\ resultado' = Resultado("success", 1, Len(df_clientes))
    /\ UNCHANGED <<shopify, cancelados, hoje, fetched, falhou, saida>>

InitWebhook ==
    /\ \E n \in 1..NumPedidos : shopify = 1..n
    /\ cancelados = {}
    /\ hoje = Hoje0
    /\ pedidos = <<>>
    /\ clientes = <<>>
    /\ resultado = Resultado("none", 0, 0)
    /\ ultima = "init"
    /\ fetched = {}
    /\ falhou = "nenhuma"
    /\ entrada = <<>>
    /\ saida = <<>>

NextWebhook ==
    \E i \in Indices, campo_id \in CamposId, falha \in FalhasWebhook :
        WebhookOrderPaid(i, campo_id, falha)

SpecWebhook == InitWebhook /\ [][NextWebhook]_vars

(* C30. Webhook payload without id: a call whose payload has no "id", or a  *)
(* null one, answers that the payload was ignored or skipped and changes    *)
(* neither the ledger nor the customer table.                               *)
C30_PayloadSemId ==
    [][ (ultima' = "webhook" /\ entrada'[1].campo_id # "presente") =>
            /\ resultado'.status \in {"ignored", "skipped"}
            /\ pedidos' = pedidos
            /\ clientes' = clientes ]_vars


=============================================================================
